---- MODULE Spec2Model ----
(***************************************************************************)
(* WatchTower: the alert scripts of the repository as state machines.      *)
(*                                                                         *)
(*   calendar_watcher.py   run_once: load, build_events, alert_T4d and     *)
(*                         alert_T90 per event, save         (SpecCal)     *)
(*   watchtower.py         main: load, feeds and their items, heartbeat,   *)
(*                         sweep, save                       (SpecWT)      *)
(*   hype_watcher.py       run: load, gather and rank, send loop,          *)
(*                         heartbeat, save                   (SpecHype)    *)
(*   sentiment_summary.py  run: count mentions, summary      (SpecSent)    *)
(*                         the summary gate alone            (SpecGate)    *)
(*   calender_watcher.py   the sleep loop around check_events (SpecLegacy) *)
(*   calendar_watcher.py   invocations that overlap          (SpecRace)    *)
(*   watchtower.py         score_event, check by check       (SpecScore)   *)
(*                         main with a process that keeps                  *)
(*                         executing                         (LiveWT)      *)
(*                                                                         *)
(* Each script is a separate process with its own state file, so each has  *)
(* its own specification over its own variables.  Every read of the clock  *)
(* (now_utc, now_ms) is a nondeterministic choice of an instant that is    *)
(* not earlier than the previous read.                                     *)
(***************************************************************************)
EXTENDS Integers, Sequences, FiniteSets, TLC

\* ------------------------------------------------------------------------
\* Bounds of the model
\* ------------------------------------------------------------------------
\* number of invocations of a script in one behaviour
MaxRuns == 3
\* seconds one clock read of a run can lie after the previous one (the HTTP
\* calls of a run time out after 20 to 25 seconds)
MaxCallSecs == 30
\* the clock of watchtower runs over MaxHalfDays dedupe horizons, MaxMs ms
\* into each, and moves at most MaxCallMs ms between two reads of one run
MaxHalfDays == 2
MaxMs == 1
MaxCallMs == 1
\* entries with coin mentions that sentiment_summary counts in one run
MaxMentions == 5
\* for the summary gate taken alone: the bullish mentions of one coin and
\* its bearish and its neutral mentions (14 of 19 is the smallest share
\* that rounds to 74)
MaxBull == 14
MaxOther == 5
\* iterations of the sleep loop of calender_watcher after the first one, and
\* the seconds one iteration takes on top of the sleep of 60
MaxLoops == 4
MaxDrift == 1
\* invocations of run_once that can be under way at the same time on one
\* state file, and invocations started in one behaviour of that setting
MaxProcs == 2
MaxRaceRuns == 3

\* ------------------------------------------------------------------------
\* Generic helpers
\* ------------------------------------------------------------------------
EmptyMap == [k \in {} |-> 0]

\* dict assignment d[k] = v
PutDropped(m, k, v) == m    \* the assignment left out
Put(m, k, v) == [x \in (DOMAIN m) \cup {k} |-> IF x = k THEN v ELSE m[x]]

\* What a state file can hold when a run opens it, besides what save_state
\* wrote ("state"): text json.loads rejects ("corrupt"), a JSON object
\* without "sent" ("nosent"), JSON that is not an object ("nonobj").
ForeignShapes == {"corrupt", "nosent", "nonobj"}

\* How the write of save_state ends: it completes ("ok"), it raises before
\* the file is touched, as on a read-only filesystem ("refused"), or it
\* raises after open(..., "w") truncated the file ("partial").
SaveOutcomes == {"ok", "refused", "partial"}

\* ========================================================================
\* calendar_watcher.py
\* ========================================================================
T4D_MINUTES == 4 * 24 * 60
T90_MINUTES == 90
MAJORS == {"CPI", "PCE", "PPI", "GDP", "NFP", "FOMC"}

\* Time is counted in seconds from a local midnight (day 0); the offset of
\* the local zone is constant over the modelled week.
DAY == 24 * 60 * 60

\* to_local(dt).date()
local_date(dt) == dt \div DAY

\* first_friday: the first Friday of the month, 08:30 local (day 6)
NFP_DT == 6 * DAY + 8 * 3600 + 30 * 60
\* build_jobless_claims: the Thursday before it, 08:30 local (day 5)
JC_DT == 5 * DAY + 8 * 3600 + 30 * 60
\* a time the BLS page can carry for the same release day (08:00 local)
BLS_NFP_DT == NFP_DT - 30 * 60

\* The instants the clock can show: around the window bounds of both events.
CalInstants ==
    {NFP_DT - 60 * m : m \in {5761, 5760, 5759, 91, 90, 1}}
        \cup {NFP_DT - 30, NFP_DT + 60}
        \cup {JC_DT - 60 * m : m \in {5760, 90}}

\* a later read of the clock inside one run
LaterRead(t, prev) == t >= prev /\ t - prev <= MaxCallSecs

CalPhases == {"T-4d", "T-90m"}
CalNames == {"NFP", "Jobless Claims"}
CalDts == {NFP_DT, JC_DT, BLS_NFP_DT}
CalPairs == {<<n, d, p>> : n \in CalNames, d \in CalDts, p \in CalPhases}

VARIABLES
    cal_now,        \* last value the clock returned
    cal_pc,         \* position of run_once: idle, loaded, t4d, t90, crashed
    cal_file,       \* STATE_FILE: [exists, shape, sent]
    cal_st,         \* st of run_once
    cal_evs,        \* evs of run_once, the result of build_events
    cal_i,          \* index of the for loop over evs
    cal_runs,       \* invocations started
    cal_attempts,   \* (name, dt, phase) -> number of calls of send for it
    cal_eval4,      \* what alert_T4d saw for the current event
    cal_eval90,     \* what alert_T90 saw for the current event
    cal_saveFailed, \* some save_state swallowed a write error
    cal_persisted,  \* st["sent"] of the last save_state that completed
    cal_st0,        \* st as it was when the loop reached the current event
    cal_scrape      \* when build_events ran and what pull_bls_events did in it

cal_vars == <<cal_now, cal_pc, cal_file, cal_st, cal_evs, cal_i, cal_runs,
              cal_attempts, cal_eval4, cal_eval90, cal_saveFailed, cal_persisted,
              cal_st0, cal_scrape>>

VARIABLES
    wt_now,         \* last value time.time() returned, in ms
    wt_pc,          \* position of main: idle, feeds, items, gc, save, crashed, hung
    wt_file,        \* STATE_FILE: [exists, shape, sent, last_gc]
    wt_sent,        \* sent of main (the dict inside st)
    wt_runNow,      \* now of main, line 177
    wt_src,         \* index of the for loop over SOURCES
    wt_queue,       \* entries of the current feed still to be handled
    wt_alerted,     \* alerted of main
    wt_runs,        \* invocations started
    wt_alerts,      \* uid -> number of alert messages handed to send_telegram
    wt_last,        \* what main did with the last entry it handled
    wt_hb,          \* the heartbeat was handed to send_telegram in this run
    wt_gcSeen       \* uid -> [ts, read] of the records the sweep looked at

wt_vars == <<wt_now, wt_pc, wt_file, wt_sent, wt_runNow, wt_src, wt_queue, wt_alerted,
             wt_runs, wt_alerts, wt_last, wt_hb, wt_gcSeen>>

VARIABLES
    hy_now,         \* last value the clock returned, in seconds
    hy_pc,          \* position of run: idle, loaded, send, hb, save, score_error
    hy_file,        \* STATE_FILE: [exists, shape, seen]
    hy_seen,        \* seen of run
    hy_cutoff,      \* cutoff of run
    hy_items,       \* items of run, ranked
    hy_j,           \* index of the send loop over items
    hy_sent,        \* sent of run
    hy_runs,        \* invocations started
    hy_last,        \* what the send loop did with the last item it handled
    hy_hb,          \* the heartbeat was handed to send_telegram in this run
    hy_alerts,      \* uid -> number of item messages handed to send_telegram
    hy_runAlerts    \* the same, counted in the current run only

hy_vars == <<hy_now, hy_pc, hy_file, hy_seen, hy_cutoff, hy_items, hy_j, hy_sent,
             hy_runs, hy_last, hy_hb, hy_alerts, hy_runAlerts>>

VARIABLES
    se_pc,          \* position of run: idle, scan, done, crashed, score_error
    se_counts,      \* counts of run
    se_n,           \* entries counted so far in this run
    se_lines,       \* lines of run
    se_runs         \* invocations started

se_vars == <<se_pc, se_counts, se_n, se_lines, se_runs>>

VARIABLES
    lg_conf,        \* which of TELEGRAM_BOT_TOKEN, TELEGRAM_CHAT_ID are set
    lg_pc,          \* position of __main__: init, check, sleep
    lg_now,         \* last value datetime.now() returned, in seconds
    lg_iter,        \* iterations of the while loop after the first one
    lg_started,     \* the start message was handed to requests.post
    lg_sent         \* (event, notice) -> number of messages handed to requests.post

lg_vars == <<lg_conf, lg_pc, lg_now, lg_iter, lg_started, lg_sent>>

\* calendar_watcher.py started by a scheduler that does not wait for the
\* previous invocation: the processes 1 .. MaxProcs share STATE_FILE
VARIABLES
    rc_now,         \* the clock
    rc_file,        \* STATE_FILE: [exists, shape, sent]
    rc_pc,          \* process -> position of its run_once: idle, loop
    rc_st,          \* process -> st of its run_once
    rc_evs,         \* process -> evs of its run_once
    rc_i,           \* process -> index of its for loop over evs
    rc_runs,        \* invocations started
    rc_attempts,    \* (name, dt, phase) -> number of calls of send for it
    rc_overlap,     \* some invocation loaded while another was under way
    rc_saveFailed,  \* some save_state swallowed a write error
    rc_lost         \* some save_state removed a record the file held

rc_vars == <<rc_now, rc_file, rc_pc, rc_st, rc_evs, rc_i, rc_runs, rc_attempts,
             rc_overlap, rc_saveFailed, rc_lost>>

\* one call of score_event of watchtower.py, its checks taken one at a time
VARIABLES
    sc_text,        \* text: the keyword groups it matches
    sc_label,       \* source_label
    sc_done,        \* the checks applied so far
    sc_s,           \* s
    sc_ret          \* the value returned, -1 before the return

sc_vars == <<sc_text, sc_label, sc_done, sc_s, sc_ret>>

vars == <<cal_vars, wt_vars, hy_vars, se_vars, lg_vars, rc_vars, sc_vars>>

\* the other scripts are other processes
CalOnly == UNCHANGED <<wt_vars, hy_vars, se_vars, lg_vars, rc_vars, sc_vars>>
WTOnly == UNCHANGED <<cal_vars, hy_vars, se_vars, lg_vars, rc_vars, sc_vars>>
HyOnly == UNCHANGED <<cal_vars, wt_vars, se_vars, lg_vars, rc_vars, sc_vars>>
SeOnly == UNCHANGED <<cal_vars, wt_vars, hy_vars, lg_vars, rc_vars, sc_vars>>
LgOnly == UNCHANGED <<cal_vars, wt_vars, hy_vars, se_vars, rc_vars, sc_vars>>
RcOnly == UNCHANGED <<cal_vars, wt_vars, hy_vars, se_vars, lg_vars, sc_vars>>
ScOnly == UNCHANGED <<cal_vars, wt_vars, hy_vars, se_vars, lg_vars, rc_vars>>

\* int((dt_utc - ref_utc).total_seconds() // 60)
minutes_until(dt_utc, ref_utc) == (dt_utc - ref_utc) \div 60

\* md5(f"{name}|{dt.isoformat()}|{phase}"): the digest is taken as injective
\* on the formatted string, which is determined by the three fields.
DedupeKeyNoPhase(ev, phase) == <<ev.name, ev.dt, "">>
DedupeKey(ev, phase) == <<ev.name, ev.dt, phase>>

\* key in st.get("sent", {}): st.sent is empty for an object without "sent"
already_sent_top(st, key) == FALSE    \* looks in st instead of st["sent"]
already_sent(st, key) == key \in DOMAIN st.sent

\* st.get raises AttributeError when st is not a dict
already_sent_raises(st) == st.shape = "nonobj"

\* st["sent"][key] = int(now_utc().timestamp() * 1000)
mark_sent_only(st, key, now) == [st EXCEPT !.sent = Put(EmptyMap, key, now * 1000)]
mark_sent(st, key, now) == [st EXCEPT !.sent = Put(@, key, now * 1000)]

\* st["sent"] raises KeyError when the object has no "sent"
mark_sent_raises(st) == st.shape # "state"

\* the state file before any run wrote it
CalNoFile == [exists |-> FALSE, shape |-> "state", sent |-> EmptyMap]
CalForeignFiles == {[exists |-> TRUE, shape |-> s, sent |-> EmptyMap] : s \in ForeignShapes}

\* load_state: whatever json.loads returns, the default when the file is
\* missing or read_text / json.loads raises
load_state_default(file) ==    \* never reads the file
    [shape |-> "state", sent |-> EmptyMap]
load_state(file) ==
    IF file.exists /\ file.shape # "corrupt"
    THEN [shape |-> file.shape, sent |-> file.sent]
    ELSE [shape |-> "state", sent |-> EmptyMap]

\* save_state: write_text(json.dumps(st)), any exception swallowed
save_state(file, st, out) ==
    CASE out = "ok"      -> [exists |-> TRUE, shape |-> st.shape, sent |-> st.sent]
      [] out = "refused" -> file
      [] out = "partial" -> [exists |-> TRUE, shape |-> "corrupt", sent |-> EmptyMap]

\* ---- build_events ------------------------------------------------------
Ev(n, d, s) == [name |-> n, dt |-> d, source |-> s]

\* Thursdays 08:30 from today's date on; the later Thursdays lie beyond the
\* modelled week and beyond both windows
build_jobless_claims(now) ==
    IF local_date(JC_DT) >= local_date(now) THEN <<Ev("Jobless Claims", JC_DT, "Rule")>> ELSE <<>>

build_nfp(now) ==
    IF NFP_DT >= now - 3600 THEN <<Ev("NFP", NFP_DT, "Rule")>> ELSE <<>>

\* What the BLS page yields: "fail" (get raises) or the set of times parsed
\* near "Employment Situation"
BLSOutcomes == {"fail", "none", "early", "both"}
BLSDates(out) ==
    CASE out = "early" -> <<BLS_NFP_DT>>
      [] out = "both"  -> <<BLS_NFP_DT, NFP_DT>>
      [] OTHER         -> <<>>

RECURSIVE pull_filter(_, _, _, _)
pull_filter(dts, now, label, src) ==
    IF dts = <<>> THEN <<>>
    ELSE (IF Head(dts) > now - 3600 THEN <<Ev(label, Head(dts), src)>> ELSE <<>>)
             \o pull_filter(Tail(dts), now, label, src)

pull_bls_events(out, now) == pull_filter(BLSDates(out), now, "NFP", "BLS")

\* The BEA and Fed pages either fail or list nothing inside the modelled week
ScrapeOutcomes == {"fail", "none"}
pull_bea_events(out, now) == <<>>
pull_fomc_events(out, now) == <<>>

\* seen[(name, date)] keeps the earliest dt, the first one on a tie
RECURSIVE dedupe_events(_, _)
dedupe_events(events, seen) ==
    IF events = <<>> THEN seen
    ELSE LET ev == Head(events)
             k == <<ev.name, local_date(ev.dt)>>
         IN dedupe_events(Tail(events),
                IF k \notin DOMAIN seen \/ ev.dt < seen[k].dt THEN Put(seen, k, ev) ELSE seen)

\* sorted(seen.values(), key=dt); the modelled events never tie on dt
RECURSIVE sort_by_dt(_)
sort_by_dt(S) ==
    IF S = {} THEN <<>>
    ELSE LET m == CHOOSE e \in S : \A f \in S : e.dt <= f.dt
         IN <<m>> \o sort_by_dt(S \ {m})

\* each scraper is called inside its own try / except
build_events_abort(now, bls, bea, fed) ==
    IF "fail" \in {bls, bea, fed} THEN <<>>
    ELSE LET events == build_jobless_claims(now) \o build_nfp(now)
                         \o pull_bls_events(bls, now)
             seen == dedupe_events(events, [k \in {} |-> Ev("", 0, "")])
         IN sort_by_dt({seen[k] : k \in DOMAIN seen})
build_events(now, bls, bea, fed) ==
    LET events == build_jobless_claims(now) \o build_nfp(now)
                    \o (IF bls = "fail" THEN <<>> ELSE pull_bls_events(bls, now))
                    \o (IF bea = "fail" THEN <<>> ELSE pull_bea_events(bea, now))
                    \o (IF fed = "fail" THEN <<>> ELSE pull_fomc_events(fed, now))
        seen == dedupe_events(events, [k \in {} |-> Ev("", 0, "")])
    IN sort_by_dt({seen[k] : k \in DOMAIN seen})

\* ---- alert phases ------------------------------------------------------
T4dWindowStrict(mins) == 0 < mins /\ mins < T4D_MINUTES
T4dWindow(mins) == 0 < mins /\ mins <= T4D_MINUTES
T90Window(mins) == 0 < mins /\ mins <= T90_MINUTES

\* What one call of a phase function computes before it sends: at is the
\* instant minutes_until read, fired says that send was called, raised which
\* statement of the function raised, if any.
alert_T4d(ev, st, now) ==
    LET mins == minutes_until(ev.dt, now)
        key == DedupeKey(ev, "T-4d")
        reached == ev.name \in MAJORS /\ T4dWindow(mins)
        fired == reached /\ ~already_sent_raises(st) /\ ~already_sent(st, key)
    IN [valid |-> TRUE, name |-> ev.name, dt |-> ev.dt, phase |-> "T-4d", key |-> key,
        at |-> now, mins |-> mins, had |-> already_sent(st, key), sendOk |-> TRUE,
        fired |-> fired,
        raised |-> IF reached /\ already_sent_raises(st) THEN "already_sent"
                   ELSE IF fired /\ mark_sent_raises(st) THEN "mark_sent"
                   ELSE "none"]

alert_T90(ev, st, now) ==
    LET mins == minutes_until(ev.dt, now)
        key == DedupeKey(ev, "T-90m")
        reached == T90Window(mins)
        fired == reached /\ ~already_sent_raises(st) /\ ~already_sent(st, key)
    IN [valid |-> TRUE, name |-> ev.name, dt |-> ev.dt, phase |-> "T-90m", key |-> key,
        at |-> now, mins |-> mins, had |-> already_sent(st, key), sendOk |-> TRUE,
        fired |-> fired,
        raised |-> IF reached /\ already_sent_raises(st) THEN "already_sent"
                   ELSE IF fired /\ mark_sent_raises(st) THEN "mark_sent"
                   ELSE "none"]

NoEval == [valid |-> FALSE, name |-> "", dt |-> 0, phase |-> "", key |-> <<"", 0, "">>,
           at |-> 0, mins |-> 0, had |-> FALSE, fired |-> FALSE, sendOk |-> TRUE,
           raised |-> "none"]

\* the (event, phase) pair a phase function was called for
PairOf(r) == <<r.name, r.dt, r.phase>>

NoState == [shape |-> "state", sent |-> EmptyMap]
NoScrape == [done |-> FALSE, now |-> 0, bls |-> "none"]

\* before the first run, with the state file as the run will find it
CalStart(file) ==
    /\ cal_now = CHOOSE t \in CalInstants : \A u \in CalInstants : t <= u
    /\ cal_pc = "idle"
    /\ cal_file = file
    /\ cal_st = NoState
    /\ cal_evs = <<>>
    /\ cal_i = 1
    /\ cal_runs = 0
    /\ cal_attempts = [k \in CalPairs |-> 0]
    /\ cal_eval4 = NoEval
    /\ cal_eval90 = NoEval
    /\ cal_saveFailed = FALSE
    /\ cal_persisted = EmptyMap
    /\ cal_st0 = NoState
    /\ cal_scrape = NoScrape

CalInit == \E file \in {CalNoFile} \cup CalForeignFiles : CalStart(file)

\* time passes between two invocations
CalTick ==
    /\ CalOnly
    /\ cal_pc = "idle"
    /\ \E t \in CalInstants : t > cal_now /\ cal_now' = t
    /\ UNCHANGED <<cal_pc, cal_file, cal_st, cal_evs, cal_i, cal_runs, cal_attempts,
                   cal_eval4, cal_eval90, cal_saveFailed, cal_persisted, cal_st0,
                   cal_scrape>>

\* run_once, line 334: st = load_state()
CalLoad ==
    /\ CalOnly
    /\ cal_pc = "idle"
    /\ cal_runs < MaxRuns
    /\ cal_runs' = cal_runs + 1
    /\ cal_st' = load_state(cal_file)
    /\ cal_pc' = "loaded"
    /\ UNCHANGED <<cal_now, cal_file, cal_evs, cal_i, cal_attempts, cal_eval4, cal_eval90,
                   cal_saveFailed, cal_persisted, cal_st0, cal_scrape>>

\* run_once, line 335: evs = build_events()
CalBuild ==
    /\ CalOnly
    /\ cal_pc = "loaded"
    /\ \E t \in CalInstants, bls \in BLSOutcomes, bea \in ScrapeOutcomes, fed \in ScrapeOutcomes :
          /\ LaterRead(t, cal_now)
          /\ cal_now' = t
          /\ cal_evs' = build_events(t, bls, bea, fed)
          /\ cal_scrape' = [done |-> TRUE, now |-> t, bls |-> bls]
    /\ cal_i' = 1
    /\ cal_pc' = "t4d"
    /\ UNCHANGED <<cal_file, cal_st, cal_runs, cal_attempts, cal_eval4, cal_eval90,
                   cal_saveFailed, cal_persisted, cal_st0>>

\* The tail of a phase function: send(msg) with requests.post succeeding or
\* raising inside send (ok), then mark_sent at the instant t2, which raises
\* when st has no "sent".
CalFire(r, t1, t2, ok) ==
    IF r.fired
    THEN /\ cal_attempts' = [cal_attempts EXCEPT ![PairOf(r)] = @ + 1]
         /\ cal_st' = IF r.raised = "mark_sent" THEN cal_st ELSE mark_sent(cal_st, r.key, t2)
         /\ cal_now' = t2
    ELSE /\ t2 = t1
         /\ ok
         /\ cal_now' = t1
         /\ UNCHANGED <<cal_st, cal_attempts>>

\* run_once, lines 338-341: an event that is not in the future is skipped
CalSkip ==
    /\ CalOnly
    /\ cal_pc = "t4d"
    /\ cal_i <= Len(cal_evs)
    /\ \E t0 \in CalInstants :
          /\ LaterRead(t0, cal_now)
          /\ cal_evs[cal_i].dt <= t0
          /\ cal_now' = t0
    /\ cal_i' = cal_i + 1
    /\ cal_eval4' = NoEval
    /\ cal_eval90' = NoEval
    /\ cal_st0' = cal_st
    /\ UNCHANGED <<cal_pc, cal_file, cal_st, cal_evs, cal_runs, cal_attempts, cal_saveFailed,
                   cal_persisted, cal_scrape>>

\* run_once, lines 338-344: the future check and alert_T4d for evs[cal_i];
\* an exception of alert_T4d leaves run_once
CalT4d ==
    /\ CalOnly
    /\ cal_pc = "t4d"
    /\ cal_i <= Len(cal_evs)
    /\ \E t0 \in CalInstants, t1 \in CalInstants, t2 \in CalInstants, ok \in BOOLEAN :
          /\ LaterRead(t0, cal_now) /\ LaterRead(t1, t0) /\ LaterRead(t2, t1)
          /\ cal_evs[cal_i].dt > t0
          /\ LET r == alert_T4d(cal_evs[cal_i], cal_st, t1) IN
               /\ cal_eval4' = [r EXCEPT !.sendOk = ok]
               /\ CalFire(r, t1, t2, ok)
               /\ cal_pc' = IF r.raised = "none" THEN "t90" ELSE "crashed"
    /\ cal_eval90' = NoEval
    /\ cal_st0' = cal_st
    /\ UNCHANGED <<cal_file, cal_evs, cal_i, cal_runs, cal_saveFailed, cal_persisted,
                   cal_scrape>>

\* run_once, lines 345-346: alert_T90 for evs[cal_i]; an exception of
\* alert_T90 leaves run_once
CalT90 ==
    /\ CalOnly
    /\ cal_pc = "t90"
    /\ \E t1 \in CalInstants, t2 \in CalInstants, ok \in BOOLEAN :
          /\ LaterRead(t1, cal_now) /\ LaterRead(t2, t1)
          /\ LET r == alert_T90(cal_evs[cal_i], cal_st, t1) IN
               /\ cal_eval90' = [r EXCEPT !.sendOk = ok]
               /\ CalFire(r, t1, t2, ok)
               /\ cal_pc' = IF r.raised = "none" THEN "t4d" ELSE "crashed"
    /\ cal_i' = cal_i + 1
    /\ UNCHANGED <<cal_file, cal_evs, cal_runs, cal_eval4, cal_saveFailed, cal_persisted,
                   cal_st0, cal_scrape>>

\* run_once, line 348: save_state(st), and the process ends
CalSave ==
    /\ CalOnly
    /\ cal_pc = "t4d"
    /\ cal_i > Len(cal_evs)
    /\ \E out \in SaveOutcomes :
          /\ cal_file' = save_state(cal_file, cal_st, out)
          /\ cal_saveFailed' = (cal_saveFailed \/ out # "ok")
          /\ cal_persisted' = IF out = "ok" THEN cal_st.sent ELSE cal_persisted
    /\ cal_pc' = "idle"
    /\ cal_st' = NoState
    /\ cal_evs' = <<>>
    /\ cal_i' = 1
    /\ cal_eval4' = NoEval
    /\ cal_eval90' = NoEval
    /\ cal_st0' = NoState
    /\ cal_scrape' = NoScrape
    /\ UNCHANGED <<cal_now, cal_runs, cal_attempts>>

\* the exception left run_once: the process ends with a traceback and
\* without save_state
CalExit ==
    /\ CalOnly
    /\ cal_pc = "crashed"
    /\ cal_pc' = "idle"
    /\ cal_st' = NoState
    /\ cal_evs' = <<>>
    /\ cal_i' = 1
    /\ cal_eval4' = NoEval
    /\ cal_eval90' = NoEval
    /\ cal_st0' = NoState
    /\ cal_scrape' = NoScrape
    /\ UNCHANGED <<cal_now, cal_file, cal_runs, cal_attempts, cal_saveFailed, cal_persisted>>

CalNext ==
    CalTick \/ CalLoad \/ CalBuild \/ CalSkip \/ CalT4d \/ CalT90 \/ CalSave \/ CalExit

\* ========================================================================
\* watchtower.py
\* ========================================================================
RECENT_HOURS == 24
DEDUPE_HOURS == 12
IMPACT_THRESHOLD == 9

h_to_ms(h) == h * 3600 * 1000

\* The instants time.time() can show, in ms: a few ms after each multiple of
\* the dedupe horizon, so that ages of exactly 12 h and 24 h and of one ms
\* more occur.
WTInstants ==
    {1 + a * h_to_ms(DEDUPE_HOURS) + b : a \in 0 .. MaxHalfDays, b \in 0 .. MaxMs}

\* the instants a later call of now_ms in the same run can return
WTLater(prev) == {t \in WTInstants : t >= prev /\ t - prev <= MaxCallMs}

\* ---- score_event -------------------------------------------------------
\* A text is the set of keyword groups of score_event it matches.
SignalWeight ==
    [macro |-> 4, policy |-> 4, regulator |-> 3, funds |-> 3, security |-> 5,
     halt |-> 4, bankruptcy |-> 3, bigname |-> 2]
Signals == DOMAIN SignalWeight

\* labels that contain "sec", "cftc", "federal reserve" or "bls"
RegulatorLabels == {"SEC - Press Releases"}

RECURSIVE SumWeights(_)
SumWeights(S) ==
    IF S = {} THEN 0
    ELSE LET g == CHOOSE x \in S : TRUE IN SignalWeight[g] + SumWeights(S \ {g})

MinRight(a, b) == b    \* no upper clamp
Min(a, b) == IF a <= b THEN a ELSE b
Max(a, b) == IF a >= b THEN a ELSE b

score_event(text, source_label) ==
    LET s == (IF source_label \in RegulatorLabels THEN 4 ELSE 0) + SumWeights(text)
    IN Max(0, Min(20, s))

\* ---- score_event, check by check -----------------------------------------
\* score_event is entered with text and source_label
ScStart(text, source_label) ==
    /\ sc_text = text
    /\ sc_label = source_label
    /\ sc_done = {}
    /\ sc_s = 0
    /\ sc_ret = -1

ScInit ==
    \E text \in SUBSET Signals, l \in {"SEC - Press Releases", "CoinDesk - All"} :
        ScStart(text, l)

\* lines 109-133: one of the if statements, the source bump or a keyword
\* group, taken in any order: s += weight when it matches
ScCheck ==
    /\ ScOnly
    /\ sc_ret = -1
    /\ \E c \in (Signals \cup {"source"}) \ sc_done :
          /\ sc_done' = sc_done \cup {c}
          /\ sc_s' = sc_s + (IF c = "source"
                             THEN (IF sc_label \in RegulatorLabels THEN 4 ELSE 0)
                             ELSE (IF c \in sc_text THEN SignalWeight[c] ELSE 0))
    /\ UNCHANGED <<sc_text, sc_label, sc_ret>>

\* line 134: return max(0, min(20, s))
ScReturn ==
    /\ ScOnly
    /\ sc_ret = -1
    /\ sc_done = Signals \cup {"source"}
    /\ sc_ret' = Max(0, Min(20, sc_s))
    /\ UNCHANGED <<sc_text, sc_label, sc_done, sc_s>>

ScNext == ScCheck \/ ScReturn

\* ---- feeds -------------------------------------------------------------
SOURCES == <<"SEC - Press Releases", "CoinDesk - All">>

\* The entries the feeds can carry.  uid stands for md5(label|title|link),
\* pub for parse_pub_ms (0: no parsable date).
WTEntry(u, l, t, p) == [uid |-> u, label |-> l, text |-> t, pub |-> p]
EntryA == WTEntry("a", SOURCES[1], {"security"}, 1)
EntryC == WTEntry("c", SOURCES[1], {"security"}, 0)
EntryB == WTEntry("b", SOURCES[2], {"security", "regulator"}, 1)
WTUids == {"a", "b", "c"}

\* what feedparser.parse can give for a source: it raises, or entries
WTFeeds(i) ==
    IF i = 1 THEN {<<>>, <<EntryA>>, <<EntryC>>, <<EntryA, EntryC>>, <<EntryA, EntryA>>}
    ELSE {<<>>, <<EntryB>>}

is_recent(pub_ms, now) ==
    IF pub_ms = 0 THEN TRUE ELSE (now - pub_ms) <= h_to_ms(RECENT_HOURS)

\* lines 209-210: last_ts and (now - last_ts) <= h_to_ms(DEDUPE_HOURS)
deduped(sent, uid, now) ==
    /\ uid \in DOMAIN sent
    /\ sent[uid] # 0
    /\ (now - sent[uid]) <= h_to_ms(DEDUPE_HOURS)

\* line 253: the sweep's test of one record
stale_ge(ts, now) == (now - ts) >= h_to_ms(DEDUPE_HOURS)
stale(ts, now) == (now - ts) > h_to_ms(DEDUPE_HOURS)

\* lines 251-256: keys_to_drop and the pops, read[k] being the now_ms() the
\* record k is compared with
sweep(sent, read) == [k \in {x \in DOMAIN sent : ~stale(sent[x], read[x])} |-> sent[k]]

\* the state file before any run wrote it
WTNoFile == [exists |-> FALSE, shape |-> "state", sent |-> EmptyMap, last_gc |-> 0]
WTForeignFiles ==
    {[exists |-> TRUE, shape |-> s, sent |-> EmptyMap, last_gc |-> 0] : s \in ForeignShapes}

\* load_state: whatever json.load returns, the default when open or
\* json.load raises
wt_load_state(file) ==
    IF file.exists /\ file.shape # "corrupt"
    THEN [shape |-> file.shape, sent |-> file.sent, last_gc |-> file.last_gc]
    ELSE [shape |-> "state", sent |-> EmptyMap, last_gc |-> 0]

\* save_state after st["sent"] = sent and st["last_gc"] = now_ms(): st is a
\* dict with both keys, any exception of the write is swallowed
wt_save_state(file, sent, last_gc, out) ==
    CASE out = "ok"      -> [exists |-> TRUE, shape |-> "state", sent |-> sent,
                             last_gc |-> last_gc]
      [] out = "refused" -> file
      [] out = "partial" -> [exists |-> TRUE, shape |-> "corrupt", sent |-> EmptyMap,
                             last_gc |-> 0]

NoLast == [uid |-> "", outcome |-> "none", sendOk |-> TRUE]

\* before the first run, with the state file as the run will find it
WTStart(file) ==
    /\ wt_now = 1
    /\ wt_pc = "idle"
    /\ wt_file = file
    /\ wt_sent = EmptyMap
    /\ wt_runNow = 0
    /\ wt_src = 1
    /\ wt_queue = <<>>
    /\ wt_alerted = 0
    /\ wt_runs = 0
    /\ wt_alerts = [u \in WTUids |-> 0]
    /\ wt_last = NoLast
    /\ wt_hb = FALSE
    /\ wt_gcSeen = EmptyMap

WTInit == \E file \in {WTNoFile} \cup WTForeignFiles : WTStart(file)

\* time passes between two invocations
WTTick ==
    /\ WTOnly
    /\ wt_pc = "idle"
    /\ \E t \in WTInstants : t > wt_now /\ wt_now' = t
    /\ UNCHANGED <<wt_pc, wt_file, wt_sent, wt_runNow, wt_src, wt_queue, wt_alerted,
                   wt_runs, wt_alerts, wt_last, wt_hb, wt_gcSeen>>

\* main, lines 170-177: load_state, sent = st.get("sent", {}), the counters,
\* now = now_ms()
WTLoad ==
    /\ WTOnly
    /\ wt_pc = "idle"
    /\ wt_runs < MaxRuns
    /\ wt_load_state(wt_file).shape # "nonobj"
    /\ wt_runs' = wt_runs + 1
    /\ wt_sent' = wt_load_state(wt_file).sent
    /\ wt_alerted' = 0
    /\ \E t \in WTLater(wt_now) : wt_now' = t /\ wt_runNow' = t
    /\ wt_src' = 1
    /\ wt_queue' = <<>>
    /\ wt_pc' = "feeds"
    /\ UNCHANGED <<wt_file, wt_alerts, wt_last, wt_hb, wt_gcSeen>>

\* main, lines 170-171: load_state returned JSON that is not an object and
\* st.get raises AttributeError
WTLoadRaises ==
    /\ WTOnly
    /\ wt_pc = "idle"
    /\ wt_runs < MaxRuns
    /\ wt_load_state(wt_file).shape = "nonobj"
    /\ wt_runs' = wt_runs + 1
    /\ wt_pc' = "crashed"
    /\ UNCHANGED <<wt_now, wt_file, wt_sent, wt_runNow, wt_src, wt_queue, wt_alerted,
                   wt_alerts, wt_last, wt_hb, wt_gcSeen>>

\* the exception left main: the process ends with a traceback
WTExit ==
    /\ WTOnly
    /\ wt_pc = "crashed"
    /\ wt_pc' = "idle"
    /\ UNCHANGED <<wt_now, wt_file, wt_sent, wt_runNow, wt_src, wt_queue, wt_alerted,
                   wt_runs, wt_alerts, wt_last, wt_hb, wt_gcSeen>>

\* main, lines 179-188: feedparser.parse raises and the source is skipped
WTFetchFail ==
    /\ WTOnly
    /\ wt_pc = "feeds"
    /\ wt_src <= Len(SOURCES)
    /\ wt_src' = wt_src + 1
    /\ UNCHANGED <<wt_now, wt_pc, wt_file, wt_sent, wt_runNow, wt_queue, wt_alerted,
                   wt_runs, wt_alerts, wt_last, wt_hb, wt_gcSeen>>

\* main, line 184: feedparser.parse(url) is called with the URL alone, no
\* timeout is passed and none is set on the sockets, so with a server that
\* accepts the connection and never answers the call does not return
WTFetchHangs ==
    /\ WTOnly
    /\ wt_pc = "feeds"
    /\ wt_src <= Len(SOURCES)
    /\ wt_pc' = "hung"
    /\ UNCHANGED <<wt_now, wt_file, wt_sent, wt_runNow, wt_src, wt_queue, wt_alerted,
                   wt_runs, wt_alerts, wt_last, wt_hb, wt_gcSeen>>

\* main, lines 179-188: the feed of the next source is parsed
WTFetch ==
    /\ WTOnly
    /\ wt_pc = "feeds"
    /\ wt_src <= Len(SOURCES)
    /\ \E f \in WTFeeds(wt_src) :
          /\ wt_queue' = f
          /\ wt_pc' = IF f = <<>> THEN "feeds" ELSE "items"
          /\ wt_src' = IF f = <<>> THEN wt_src + 1 ELSE wt_src
    /\ UNCHANGED <<wt_now, wt_file, wt_sent, wt_runNow, wt_alerted, wt_runs, wt_alerts,
                   wt_last, wt_hb, wt_gcSeen>>

\* main, lines 189-239: one entry of the feed
WTItem ==
    /\ WTOnly
    /\ wt_pc = "items"
    /\ LET it == Head(wt_queue)
           rest == Tail(wt_queue)
       IN /\ wt_queue' = rest
          /\ wt_pc' = IF rest = <<>> THEN "feeds" ELSE "items"
          /\ wt_src' = IF rest = <<>> THEN wt_src + 1 ELSE wt_src
          /\ \E t1 \in WTLater(wt_now) :
               IF ~is_recent(it.pub, t1)
               THEN /\ wt_now' = t1
                    /\ wt_last' = [uid |-> it.uid, outcome |-> "old", sendOk |-> TRUE]
                    /\ UNCHANGED <<wt_sent, wt_alerted, wt_alerts>>
               ELSE IF deduped(wt_sent, it.uid, wt_runNow)
               THEN /\ wt_now' = t1
                    /\ wt_last' = [uid |-> it.uid, outcome |-> "deduped", sendOk |-> TRUE]
                    /\ UNCHANGED <<wt_sent, wt_alerted, wt_alerts>>
               ELSE IF score_event(it.text, it.label) >= IMPACT_THRESHOLD
               THEN \E t2 \in WTLater(t1), ok \in BOOLEAN :
                       /\ wt_now' = t2
                       /\ wt_alerts' = [wt_alerts EXCEPT ![it.uid] = @ + 1]
                       /\ wt_sent' = Put(wt_sent, it.uid, t2)
                       /\ wt_alerted' = wt_alerted + 1
                       /\ wt_last' = [uid |-> it.uid, outcome |-> "alerted", sendOk |-> ok]
               ELSE /\ wt_now' = t1
                    /\ wt_last' = [uid |-> it.uid, outcome |-> "low", sendOk |-> TRUE]
                    /\ UNCHANGED <<wt_sent, wt_alerted, wt_alerts>>
    /\ UNCHANGED <<wt_file, wt_runNow, wt_runs, wt_hb, wt_gcSeen>>

\* main, lines 241-247: the heartbeat if nothing fired
WTHeartbeat ==
    /\ WTOnly
    /\ wt_pc = "feeds"
    /\ wt_src > Len(SOURCES)
    /\ wt_hb' = (wt_alerted = 0)
    /\ wt_pc' = "gc"
    /\ UNCHANGED <<wt_now, wt_file, wt_sent, wt_runNow, wt_src, wt_queue, wt_alerted,
                   wt_runs, wt_alerts, wt_last, wt_gcSeen>>

\* main, lines 249-256: the sweep, one now_ms() per record
WTSweep ==
    /\ WTOnly
    /\ wt_pc = "gc"
    /\ \E read \in [DOMAIN wt_sent -> WTLater(wt_now)] :
          /\ wt_sent' = sweep(wt_sent, read)
          /\ wt_gcSeen' = [k \in DOMAIN wt_sent |-> [ts |-> wt_sent[k], read |-> read[k]]]
          /\ wt_now' = IF DOMAIN wt_sent = {} THEN wt_now
                       ELSE CHOOSE t \in {read[k] : k \in DOMAIN wt_sent} :
                                \A k \in DOMAIN wt_sent : read[k] <= t
    /\ wt_pc' = "save"
    /\ UNCHANGED <<wt_file, wt_runNow, wt_src, wt_queue, wt_alerted, wt_runs, wt_alerts,
                   wt_last, wt_hb>>

\* main, lines 258-260: st["sent"], st["last_gc"], save_state; the process ends
WTSave ==
    /\ WTOnly
    /\ wt_pc = "save"
    /\ \E t \in WTLater(wt_now), out \in SaveOutcomes :
          /\ wt_now' = t
          /\ wt_file' = wt_save_state(wt_file, wt_sent, t, out)
    /\ wt_pc' = "idle"
    /\ wt_sent' = EmptyMap
    /\ wt_runNow' = 0
    /\ wt_src' = 1
    /\ wt_alerted' = 0
    /\ wt_last' = NoLast
    /\ wt_hb' = FALSE
    /\ wt_gcSeen' = EmptyMap
    /\ UNCHANGED <<wt_queue, wt_runs, wt_alerts>>

WTNext ==
    \/ WTTick \/ WTLoad \/ WTLoadRaises \/ WTExit \/ WTFetchFail \/ WTFetchHangs \/ WTFetch
    \/ WTItem \/ WTHeartbeat \/ WTSweep \/ WTSave

\* ========================================================================
\* hype_watcher.py
\* ========================================================================
MAX_ITEMS_PER_RUN == 5
HY_RECENT_HOURS == 6
\* MIN_SCORE_TO_ALERT = 0.35; scores are counted in hundredths
MIN_SCORE_TO_ALERT == 35

\* the clock, in seconds: the items dated 0 are exactly RECENT_HOURS old at
\* the second instant and one second older at the third
HyInstants == {0, HY_RECENT_HOURS * 3600, HY_RECENT_HOURS * 3600 + 1}

\* The entries the feeds can carry.  uid stands for sha1(title|link), score
\* for the first component of score_item, when for parse_when (-1: no date,
\* parse_when falls back to now).
HyEntry(u, sc, w) == [uid |-> u, score |-> sc, when |-> w]
HyPool ==
    <<HyEntry("h1", 90, 0), HyEntry("h2", 80, -1), HyEntry("h3", 70, -1),
      HyEntry("h4", 60, -1), HyEntry("h5", 50, -1), HyEntry("h6", 35, -1),
      HyEntry("h7", 34, -1)>>
HyUids == {HyPool[i].uid : i \in DOMAIN HyPool}

\* the entries feedparser.parse can give for the source when it does not raise
HyFeeds == {<<>>, HyPool, <<HyPool[6], HyPool[1]>>, <<HyPool[7], HyPool[6], HyPool[6]>>}

\* load_state: set(json.load(f)), set() when open or json.load raises
hy_load_state(file) == IF file.exists /\ file.shape # "corrupt" THEN file.seen ELSE {}

\* save_state: json.dump(sorted(list(seen)), f), any exception swallowed
hy_save_state(file, seen, out) ==
    CASE out = "ok"      -> [exists |-> TRUE, shape |-> "state", seen |-> seen]
      [] out = "refused" -> file
      [] out = "partial" -> [exists |-> TRUE, shape |-> "corrupt", seen |-> {}]

\* lines 148-170: the entries that are recent and not in seen, in feed order
RECURSIVE gather(_, _, _, _)
gather(entries, seen, cutoff, now) ==
    IF entries = <<>> THEN <<>>
    ELSE LET e == Head(entries)
             when == IF e.when = -1 THEN now ELSE e.when
         IN (IF when < cutoff \/ e.uid \in seen THEN <<>> ELSE <<e>>)
                \o gather(Tail(entries), seen, cutoff, now)

\* items.sort(key=score, reverse=True): stable
RECURSIVE insert_desc(_, _)
insert_desc(sorted, e) ==
    IF sorted = <<>> THEN <<e>>
    ELSE IF Head(sorted).score >= e.score THEN <<Head(sorted)>> \o insert_desc(Tail(sorted), e)
    ELSE <<e>> \o sorted

sort_none(items, acc) == items    \* feed order kept
RECURSIVE sort_desc(_, _)
sort_desc(items, acc) ==
    IF items = <<>> THEN acc ELSE sort_desc(Tail(items), insert_desc(acc, Head(items)))

HyNoLast == [uid |-> "", outcome |-> "none", notice |-> FALSE]
NoAlerts == [u \in HyUids |-> 0]

HyInit ==
    /\ hy_now = 0
    /\ hy_pc = "idle"
    /\ hy_file = [exists |-> FALSE, shape |-> "state", seen |-> {}]
    /\ hy_seen = {}
    /\ hy_cutoff = 0
    /\ hy_items = <<>>
    /\ hy_j = 1
    /\ hy_sent = 0
    /\ hy_runs = 0
    /\ hy_last = HyNoLast
    /\ hy_hb = FALSE
    /\ hy_alerts = NoAlerts
    /\ hy_runAlerts = NoAlerts

\* time passes between two invocations
HyTick ==
    /\ HyOnly
    /\ hy_pc = "idle"
    /\ \E t \in HyInstants : t > hy_now /\ hy_now' = t
    /\ UNCHANGED <<hy_pc, hy_file, hy_seen, hy_cutoff, hy_items, hy_j, hy_sent, hy_runs,
                   hy_last, hy_hb, hy_alerts, hy_runAlerts>>

\* run, lines 137-138: seen = load_state(), cutoff
HyLoad ==
    /\ HyOnly
    /\ hy_pc = "idle"
    /\ hy_runs < MaxRuns
    /\ hy_runs' = hy_runs + 1
    /\ hy_seen' = hy_load_state(hy_file)
    /\ hy_cutoff' = hy_now - HY_RECENT_HOURS * 3600
    /\ hy_pc' = "loaded"
    /\ UNCHANGED <<hy_now, hy_file, hy_items, hy_j, hy_sent, hy_last, hy_hb, hy_alerts,
                   hy_runAlerts>>

\* run, lines 140-175: the feed is fetched, the items are collected and ranked
HyGather ==
    /\ HyOnly
    /\ hy_pc = "loaded"
    /\ \E f \in HyFeeds, raises \in BOOLEAN :
          hy_items' = IF raises THEN <<>>
                      ELSE sort_desc(gather(f, hy_seen, hy_cutoff, hy_now), <<>>)
    /\ hy_j' = 1
    /\ hy_sent' = 0
    /\ hy_pc' = "send"
    /\ UNCHANGED <<hy_now, hy_file, hy_seen, hy_cutoff, hy_runs, hy_last, hy_hb, hy_alerts,
                   hy_runAlerts>>

\* run, line 158: score_item raises for an entry that is recent and not in
\* seen (float(source_weight) of a weight that is no number, for one);
\* nothing catches it and run ends with the exception
HyScoreRaises ==
    /\ HyOnly
    /\ hy_pc = "loaded"
    /\ \E f \in HyFeeds : gather(f, hy_seen, hy_cutoff, hy_now) # <<>>
    /\ hy_pc' = "score_error"
    /\ UNCHANGED <<hy_now, hy_file, hy_seen, hy_cutoff, hy_items, hy_j, hy_sent, hy_runs,
                   hy_last, hy_hb, hy_alerts, hy_runAlerts>>

\* the exception left run: the process ends with a traceback and without
\* save_state
HyExit ==
    /\ HyOnly
    /\ hy_pc = "score_error"
    /\ hy_pc' = "idle"
    /\ hy_seen' = {}
    /\ hy_cutoff' = 0
    /\ UNCHANGED <<hy_now, hy_file, hy_items, hy_j, hy_sent, hy_runs, hy_last, hy_hb,
                   hy_alerts, hy_runAlerts>>

\* run, lines 176-202: one item of the send loop.  send_telegram returns
\* (ok) or raises; when it raises, the except branch hands the notice
\* "HypeWatcher send failed: ..." to send_telegram (notice) and neither sent
\* nor seen change.
HyItem ==
    /\ HyOnly
    /\ hy_pc = "send"
    /\ hy_j <= Len(hy_items)
    /\ LET it == hy_items[hy_j] IN
         IF it.score < MIN_SCORE_TO_ALERT
         THEN /\ hy_j' = hy_j + 1
              /\ hy_last' = [uid |-> it.uid, outcome |-> "low", notice |-> FALSE]
              /\ UNCHANGED <<hy_pc, hy_seen, hy_sent, hy_alerts, hy_runAlerts>>
         ELSE IF hy_sent >= MAX_ITEMS_PER_RUN
         THEN /\ hy_pc' = "hb"
              /\ hy_last' = [uid |-> it.uid, outcome |-> "capped", notice |-> FALSE]
              /\ UNCHANGED <<hy_j, hy_seen, hy_sent, hy_alerts, hy_runAlerts>>
         ELSE \E ok \in BOOLEAN :
                 /\ hy_j' = hy_j + 1
                 /\ hy_alerts' = [hy_alerts EXCEPT ![it.uid] = @ + 1]
                 /\ hy_runAlerts' = [hy_runAlerts EXCEPT ![it.uid] = @ + 1]
                 /\ hy_sent' = IF ok THEN hy_sent + 1 ELSE hy_sent
                 /\ hy_seen' = IF ok THEN hy_seen \cup {it.uid} ELSE hy_seen
                 /\ hy_last' = [uid |-> it.uid, outcome |-> IF ok THEN "sent" ELSE "failed",
                                 notice |-> ~ok]
                 /\ UNCHANGED hy_pc
    /\ UNCHANGED <<hy_now, hy_file, hy_cutoff, hy_items, hy_runs, hy_hb>>

\* run, line 176: the loop runs out of items
HyLoopEnd ==
    /\ HyOnly
    /\ hy_pc = "send"
    /\ hy_j > Len(hy_items)
    /\ hy_pc' = "hb"
    /\ UNCHANGED <<hy_now, hy_file, hy_seen, hy_cutoff, hy_items, hy_j, hy_sent, hy_runs,
                   hy_last, hy_hb, hy_alerts, hy_runAlerts>>

\* run, lines 204-209: the heartbeat if nothing was sent
HyHeartbeat ==
    /\ HyOnly
    /\ hy_pc = "hb"
    /\ hy_hb' = (hy_sent = 0)
    /\ hy_pc' = "save"
    /\ UNCHANGED <<hy_now, hy_file, hy_seen, hy_cutoff, hy_items, hy_j, hy_sent, hy_runs,
                   hy_last, hy_alerts, hy_runAlerts>>

\* run, line 211: save_state(seen); the process ends
HySave ==
    /\ HyOnly
    /\ hy_pc = "save"
    /\ \E out \in SaveOutcomes : hy_file' = hy_save_state(hy_file, hy_seen, out)
    /\ hy_pc' = "idle"
    /\ hy_seen' = {}
    /\ hy_cutoff' = 0
    /\ hy_items' = <<>>
    /\ hy_j' = 1
    /\ hy_sent' = 0
    /\ hy_last' = HyNoLast
    /\ hy_hb' = FALSE
    /\ hy_runAlerts' = NoAlerts
    /\ UNCHANGED <<hy_now, hy_runs, hy_alerts>>

HyNext ==
    \/ HyTick \/ HyLoad \/ HyGather \/ HyScoreRaises \/ HyExit \/ HyItem \/ HyLoopEnd
    \/ HyHeartbeat \/ HySave

\* ========================================================================
\* sentiment_summary.py
\* ========================================================================
MIN_MENTIONS_PER_COIN == 4
STRONG_THRESHOLD_PCT == 75

\* the symbols of COIN_MAP that the modelled headlines mention
Coins == {"BTC", "ETH"}
Labels == {"bull", "bear", "neutral"}

ZeroCounts == [sym \in Coins |-> [bull |-> 0, bear |-> 0, neutral |-> 0, total |-> 0]]

\* lines 123-125: counts[sym][label] += 1; counts[sym]["total"] += 1
count_mention_label(counts, coins, label) ==    \* total left as it is
    [sym \in Coins |->
        IF sym \in coins THEN [counts[sym] EXCEPT ![label] = @ + 1] ELSE counts[sym]]
count_mention(counts, coins, label) ==
    [sym \in Coins |->
        IF sym \in coins
        THEN [counts[sym] EXCEPT ![label] = @ + 1, !.total = @ + 1]
        ELSE counts[sym]]

\* int(round(100.0 * c / total)): round half to even
round_pct(c, total) ==
    LET q == (100 * c) \div total
        r == (100 * c) % total
    IN IF 2 * r < total THEN q
       ELSE IF 2 * r > total THEN q + 1
       ELSE IF q % 2 = 0 THEN q ELSE q + 1

\* lines 128-139: the line of one symbol, if any
summary_lines(counts) ==
    {[sym |-> sym, side |-> side, pct |-> round_pct(counts[sym][side], counts[sym].total)] :
        sym \in {x \in Coins : counts[x].total >= MIN_MENTIONS_PER_COIN}, side \in {"bull", "bear"}}

strong_lines_gt(counts) ==
    {l \in summary_lines(counts) :
        /\ l.pct > STRONG_THRESHOLD_PCT
        /\ l.side = "bear" =>
             round_pct(counts[l.sym].bull, counts[l.sym].total) <= STRONG_THRESHOLD_PCT}
strong_lines(counts) ==
    {l \in summary_lines(counts) :
        /\ l.pct >= STRONG_THRESHOLD_PCT
        /\ l.side = "bear" =>
             round_pct(counts[l.sym].bull, counts[l.sym].total) < STRONG_THRESHOLD_PCT}

SeInit ==
    /\ se_pc = "idle"
    /\ se_counts = ZeroCounts
    /\ se_n = 0
    /\ se_lines = {}
    /\ se_runs = 0

\* run, lines 98-99: cutoff and the zeroed counts
SeStart ==
    /\ SeOnly
    /\ se_pc = "idle"
    /\ se_runs < MaxRuns
    /\ se_runs' = se_runs + 1
    /\ se_counts' = ZeroCounts
    /\ se_n' = 0
    /\ se_lines' = {}
    /\ se_pc' = "scan"

\* run, lines 109-125: one recent entry that mentions coins is classified
SeMention ==
    /\ SeOnly
    /\ se_pc = "scan"
    /\ se_n < MaxMentions
    /\ \E coins \in (SUBSET Coins) \ {{}}, label \in Labels :
          se_counts' = count_mention(se_counts, coins, label)
    /\ se_n' = se_n + 1
    /\ UNCHANGED <<se_pc, se_lines, se_runs>>

\* run, line 122: classify_sentiment raises for an entry that mentions a
\* coin; nothing catches it and run ends with the exception
SeClassifyRaises ==
    /\ SeOnly
    /\ se_pc = "scan"
    /\ se_n < MaxMentions
    /\ se_pc' = "score_error"
    /\ UNCHANGED <<se_counts, se_n, se_lines, se_runs>>

\* run, lines 127-146: the summary is built and handed to send_telegram,
\* which returns
SeSummary ==
    /\ SeOnly
    /\ se_pc = "scan"
    /\ se_lines' = strong_lines(se_counts)
    /\ se_pc' = "done"
    /\ UNCHANGED <<se_counts, se_n, se_runs>>

\* run, lines 141-146, with requests.post or raise_for_status raising inside
\* send_telegram: nothing catches it and run ends with the exception
SeSummaryRaises ==
    /\ SeOnly
    /\ se_pc = "scan"
    /\ se_lines' = strong_lines(se_counts)
    /\ se_pc' = "crashed"
    /\ UNCHANGED <<se_counts, se_n, se_runs>>

\* the process has ended
SeExit ==
    /\ SeOnly
    /\ se_pc \in {"done", "crashed", "score_error"}
    /\ se_pc' = "idle"
    /\ se_counts' = ZeroCounts
    /\ se_n' = 0
    /\ se_lines' = {}
    /\ UNCHANGED se_runs

SeNext ==
    SeStart \/ SeMention \/ SeClassifyRaises \/ SeSummary \/ SeSummaryRaises \/ SeExit

\* ---- the summary gate taken alone -------------------------------------
\* The counts the loop over the feeds can leave behind: any counts for BTC,
\* a few mentions for ETH.
GateCounts ==
    {[BTC |-> [bull |-> b, bear |-> r, neutral |-> n, total |-> b + r + n],
      ETH |-> [bull |-> eb, bear |-> 0, neutral |-> en, total |-> eb + en]] :
        b \in 0 .. MaxBull, r \in 0 .. MaxOther, n \in 0 .. MaxOther,
        eb \in 0 .. MIN_MENTIONS_PER_COIN, en \in 0 .. 1}

\* run has counted the mentions of all feeds and is about to build the lines
SeCounted ==
    /\ se_pc = "scan"
    /\ se_counts \in GateCounts
    /\ se_n = se_counts["BTC"].total + se_counts["ETH"].total
    /\ se_lines = {}
    /\ se_runs = 1

GateNext == SeSummary \/ SeSummaryRaises \/ SeExit

\* ========================================================================
\* calender_watcher.py (the sleep loop)
\* ========================================================================
\* Time is counted in seconds from the midnight that begins 2025-09-01.
LgEv(n, d) == [name |-> n, dt |-> d]

\* EVENTS: the first two entries, 2025-09-06 08:30 and 2025-09-11 08:30
EVENTS ==
    <<LgEv("US Jobs Report (NFP)", 5 * DAY + 8 * 3600 + 30 * 60),
      LgEv("US CPI Inflation Report", 10 * DAY + 8 * 3600 + 30 * 60)>>

LgNotices == {"3d", "90m", "release"}
LgKeys == {<<EVENTS[i].name, k>> : i \in DOMAIN EVENTS, k \in LgNotices}

\* check_events, lines 33, 37 and 41: the notices due for one event at now
due(event, now) ==
    {k \in LgNotices :
        \/ k = "3d" /\ now + 3 * DAY >= event.dt /\ event.dt > now + 2 * DAY + 23 * 3600
        \/ k = "90m" /\ now + 90 * 60 >= event.dt /\ event.dt > now + 89 * 60
        \/ k = "release" /\ now >= event.dt /\ now <= event.dt + 60}

\* check_events: one send_telegram per due notice of each event
check_events(sent, now) ==
    [key \in LgKeys |->
        IF \E i \in DOMAIN EVENTS : key[1] = EVENTS[i].name /\ key[2] \in due(EVENTS[i], now)
        THEN sent[key] + 1 ELSE sent[key]]

\* os.getenv for the two variables: both set, one missing, both missing
LgConfs == {{"TELEGRAM_BOT_TOKEN", "TELEGRAM_CHAT_ID"}, {"TELEGRAM_CHAT_ID"}, {}}

\* the process can be started at any time: here, shortly before one of the
\* windows of the first event opens
LgStarts ==
    {EVENTS[1].dt - w - b : w \in {3 * DAY, 90 * 60, 0}, b \in {0, 30, 61}}

\* the process is started at the instant t with the environment conf
LgBoot(conf, t) ==
    /\ lg_conf = conf
    /\ lg_pc = "init"
    /\ lg_now = t
    /\ lg_iter = 0
    /\ lg_started = FALSE
    /\ lg_sent = [key \in LgKeys |-> 0]

LgInit == \E conf \in LgConfs, t \in LgStarts : LgBoot(conf, t)

\* __main__, line 46: the start message.  Nothing looks at the two
\* variables: with one missing the URL or the payload carries None, and
\* send_telegram swallows whatever requests.post raises.
LgStart ==
    /\ LgOnly
    /\ lg_pc = "init"
    /\ lg_started' = TRUE
    /\ lg_pc' = "check"
    /\ UNCHANGED <<lg_conf, lg_now, lg_iter, lg_sent>>

\* __main__, line 48: check_events()
LgCheck ==
    /\ LgOnly
    /\ lg_pc = "check"
    /\ lg_sent' = check_events(lg_sent, lg_now)
    /\ lg_pc' = "sleep"
    /\ UNCHANGED <<lg_conf, lg_now, lg_iter, lg_started>>

\* __main__, line 49: time.sleep(60), and the next datetime.now()
LgSleep ==
    /\ LgOnly
    /\ lg_pc = "sleep"
    /\ lg_iter < MaxLoops
    /\ \E d \in 0 .. MaxDrift : lg_now' = lg_now + 60 + d
    /\ lg_iter' = lg_iter + 1
    /\ lg_pc' = "check"
    /\ UNCHANGED <<lg_conf, lg_started, lg_sent>>

LgNext == LgStart \/ LgCheck \/ LgSleep

\* a calender_watcher that is not part of the specification at hand
LgIdle == LgBoot({"TELEGRAM_BOT_TOKEN", "TELEGRAM_CHAT_ID"}, EVENTS[1].dt)

\* ========================================================================
\* calendar_watcher.py, invocations that overlap
\* ========================================================================
\* The instants the clock can show: around the opening of the T-4d window of
\* the NFP event.
RcInstants == {NFP_DT - 60 * m : m \in {5761, 5760, 5759}}

RcInit ==
    /\ rc_now = NFP_DT - 60 * 5761
    /\ rc_file = CalNoFile
    /\ rc_pc = [p \in 1 .. MaxProcs |-> "idle"]
    /\ rc_st = [p \in 1 .. MaxProcs |-> NoState]
    /\ rc_evs = [p \in 1 .. MaxProcs |-> <<>>]
    /\ rc_i = [p \in 1 .. MaxProcs |-> 1]
    /\ rc_runs = 0
    /\ rc_attempts = [k \in CalPairs |-> 0]
    /\ rc_overlap = FALSE
    /\ rc_saveFailed = FALSE
    /\ rc_lost = FALSE

\* time passes, whatever the processes are doing
RcTick ==
    /\ RcOnly
    /\ \E t \in RcInstants : t > rc_now /\ rc_now' = t
    /\ UNCHANGED <<rc_file, rc_pc, rc_st, rc_evs, rc_i, rc_runs, rc_attempts,
                   rc_overlap, rc_saveFailed, rc_lost>>

\* run_once, lines 334-335, in process p: st = load_state() and
\* evs = build_events(), the pages listing nothing
RcLoad(p) ==
    /\ RcOnly
    /\ rc_pc[p] = "idle"
    /\ rc_runs < MaxRaceRuns
    /\ rc_runs' = rc_runs + 1
    /\ rc_st' = [rc_st EXCEPT ![p] = load_state(rc_file)]
    /\ rc_evs' = [rc_evs EXCEPT ![p] = build_events(rc_now, "none", "none", "none")]
    /\ rc_i' = [rc_i EXCEPT ![p] = 1]
    /\ rc_pc' = [rc_pc EXCEPT ![p] = "loop"]
    /\ rc_overlap' = (rc_overlap \/ \E q \in 1 .. MaxProcs : q # p /\ rc_pc[q] # "idle")
    /\ UNCHANGED <<rc_now, rc_file, rc_attempts, rc_saveFailed, rc_lost>>

\* run_once, lines 336-346, in process p: one pass of the loop, the future
\* check, alert_T4d and alert_T90 for evs[i], each send followed by mark_sent
RcEvent(p) ==
    /\ RcOnly
    /\ rc_pc[p] = "loop"
    /\ rc_i[p] <= Len(rc_evs[p])
    /\ LET ev == rc_evs[p][rc_i[p]]
           future == ev.dt > rc_now
           r4 == alert_T4d(ev, rc_st[p], rc_now)
           st4 == IF future /\ r4.fired THEN mark_sent(rc_st[p], r4.key, rc_now) ELSE rc_st[p]
           r90 == alert_T90(ev, st4, rc_now)
           st90 == IF future /\ r90.fired THEN mark_sent(st4, r90.key, rc_now) ELSE st4
       IN /\ rc_st' = [rc_st EXCEPT ![p] = st90]
          /\ rc_attempts' =
                [k \in CalPairs |->
                    rc_attempts[k]
                      + (IF future /\ r4.fired /\ k = PairOf(r4) THEN 1 ELSE 0)
                      + (IF future /\ r90.fired /\ k = PairOf(r90) THEN 1 ELSE 0)]
    /\ rc_i' = [rc_i EXCEPT ![p] = @ + 1]
    /\ UNCHANGED <<rc_now, rc_file, rc_pc, rc_evs, rc_runs, rc_overlap, rc_saveFailed,
                   rc_lost>>

\* run_once, line 348, in process p: save_state(st), and the process ends
RcSave(p) ==
    /\ RcOnly
    /\ rc_pc[p] = "loop"
    /\ rc_i[p] > Len(rc_evs[p])
    /\ \E out \in SaveOutcomes :
          /\ rc_file' = save_state(rc_file, rc_st[p], out)
          /\ rc_saveFailed' = (rc_saveFailed \/ out # "ok")
    /\ rc_lost' = (rc_lost \/ DOMAIN rc_file.sent \ DOMAIN rc_file'.sent # {})
    /\ rc_pc' = [rc_pc EXCEPT ![p] = "idle"]
    /\ rc_st' = [rc_st EXCEPT ![p] = NoState]
    /\ rc_evs' = [rc_evs EXCEPT ![p] = <<>>]
    /\ rc_i' = [rc_i EXCEPT ![p] = 1]
    /\ UNCHANGED <<rc_now, rc_runs, rc_attempts, rc_overlap>>

RcNext == RcTick \/ \E p \in 1 .. MaxProcs : RcLoad(p) \/ RcEvent(p) \/ RcSave(p)

\* In the specification of one script the other scripts never run.
InitCal == CalInit /\ WTStart(WTNoFile) /\ HyInit /\ SeInit /\ LgIdle /\ RcInit
    /\ ScStart({}, "CoinDesk - All")
InitWT == CalStart(CalNoFile) /\ WTInit /\ HyInit /\ SeInit /\ LgIdle /\ RcInit
    /\ ScStart({}, "CoinDesk - All")
InitHype == CalStart(CalNoFile) /\ WTStart(WTNoFile) /\ HyInit /\ SeInit /\ LgIdle /\ RcInit
    /\ ScStart({}, "CoinDesk - All")
InitSent == CalStart(CalNoFile) /\ WTStart(WTNoFile) /\ HyInit /\ SeInit /\ LgIdle /\ RcInit
    /\ ScStart({}, "CoinDesk - All")
InitLegacy == CalStart(CalNoFile) /\ WTStart(WTNoFile) /\ HyInit /\ SeInit /\ LgInit /\ RcInit
    /\ ScStart({}, "CoinDesk - All")

SpecCal == InitCal /\ [][CalNext]_vars
SpecWT == InitWT /\ [][WTNext]_vars
SpecHype == InitHype /\ [][HyNext]_vars
SpecSent == InitSent /\ [][SeNext]_vars

InitGate == CalStart(CalNoFile) /\ WTStart(WTNoFile) /\ HyInit /\ SeCounted /\ LgIdle /\ RcInit
    /\ ScStart({}, "CoinDesk - All")
SpecGate == InitGate /\ [][GateNext]_vars

SpecLegacy == InitLegacy /\ [][LgNext]_vars

InitRace == CalStart(CalNoFile) /\ WTStart(WTNoFile) /\ HyInit /\ SeInit /\ LgIdle /\ RcInit
    /\ ScStart({}, "CoinDesk - All")
SpecRace == InitRace /\ [][RcNext]_vars

\* watchtower with a process that, once started, keeps executing: a
\* statement of main that can be executed is executed
LiveWT ==
    /\ InitWT
    /\ [][WTNext]_vars
    /\ WF_vars(WTExit \/ WTFetchFail \/ WTFetch \/ WTItem \/ WTHeartbeat \/ WTSweep \/ WTSave)

InitScore ==
    CalStart(CalNoFile) /\ WTStart(WTNoFile) /\ HyInit /\ SeInit /\ LgIdle /\ RcInit
    /\ ScInit
SpecScore == InitScore /\ [][ScNext]_vars

\* ========================================================================
\* Properties of calendar_watcher.py
\* ========================================================================

\* C1: with every save succeeding and a state file that holds nothing but
\* what run_once wrote (or nothing json.loads accepts), over successive runs
\* of run_once the notification of one (event, phase) pair is sent at most
\* once.
C1_Idempotent ==
    (~cal_saveFailed /\ cal_file.shape \notin {"nosent", "nonobj"})
        => \A p \in CalPairs : cal_attempts[p] <= 1

\* a second run, one minute after the T-4d send at 5760, found the record
C1_Witness ==
    /\ ~cal_saveFailed
    /\ cal_runs >= 2
    /\ cal_eval4.valid /\ cal_eval4.had /\ ~cal_eval4.fired
    /\ cal_eval4.mins = T4D_MINUTES - 1
    /\ cal_attempts[PairOf(cal_eval4)] = 1

\* the step in which alert_T4d / alert_T90 ran
StepT4d == cal_pc = "t4d" /\ cal_pc' = "t90"
StepT90 == cal_pc = "t90" /\ cal_pc' = "t4d"

Sent(r) == cal_attempts'[PairOf(r)] = cal_attempts[PairOf(r)] + 1
NotSent(r) == cal_attempts'[PairOf(r)] = cal_attempts[PairOf(r)]

WindowRule(r, H, applies) ==
    /\ (r.mins = H /\ ~r.had /\ applies) => Sent(r)
    /\ r.mins = H + 1 => NotSent(r)
    /\ r.mins <= 0 => NotSent(r)

\* C3 as stated: for each phase with upper bound H and any event not yet
\* recorded for it, the phase fires at minutes_until = H, not at H + 1 and
\* never at minutes_until <= 0.
C3_AnyEvent ==
    [][/\ StepT4d => WindowRule(cal_eval4', T4D_MINUTES, TRUE)
       /\ StepT90 => WindowRule(cal_eval90', T90_MINUTES, TRUE)]_vars

\* C3 (amended): the same for T-90m and every event, and for T-4d and every
\* event whose name is in MAJORS; T-4d never fires for another event.
C3_WindowExclusive ==
    [][/\ StepT4d => /\ WindowRule(cal_eval4', T4D_MINUTES, cal_eval4'.name \in MAJORS)
                     /\ cal_eval4'.name \notin MAJORS => NotSent(cal_eval4')
       /\ StepT90 => WindowRule(cal_eval90', T90_MINUTES, TRUE)]_vars

\* T-4d was sent at exactly 5760 minutes
C3_Witness ==
    /\ cal_eval4.valid /\ cal_eval4.fired
    /\ cal_eval4.mins = T4D_MINUTES
    /\ cal_attempts[PairOf(cal_eval4)] = 1

\* C4: a major event that both phase functions see inside (0, 90] with no
\* record under either phase's key is sent twice in that run under two
\* different keys; and whatever T-4d recorded, T-90m is sent when the event
\* is in its window and has no T-90m record.
C4_PhaseIndependent ==
    [][StepT90 =>
        LET r4 == cal_eval4
            r90 == cal_eval90'
        IN /\ (T90Window(r90.mins) /\ PairOf(r90) \notin DOMAIN cal_st.sent) => Sent(r90)
           /\ (/\ r4.name \in MAJORS /\ T90Window(r4.mins) /\ ~r4.had
               /\ T90Window(r90.mins) /\ PairOf(r90) \notin DOMAIN cal_st.sent)
                 => /\ r4.fired /\ cal_attempts[PairOf(r4)] >= 1
                    /\ Sent(r90)
                    /\ r4.key # r90.key
                    /\ {r4.key, r90.key} \subseteq DOMAIN cal_st'.sent]_vars

\* both phases of one event were sent in one run, inside the 90 minutes
C4_Witness ==
    /\ cal_eval4.valid /\ cal_eval90.valid
    /\ cal_eval4.fired /\ cal_eval90.fired
    /\ T90Window(cal_eval4.mins) /\ T90Window(cal_eval90.mins)
    /\ cal_eval4.key # cal_eval90.key

\* C6: a sweep runs in every invocation, so that after a completed run the
\* persisted store holds no record older than the retention horizon (here
\* the longest phase window, T4D_MINUTES).
C6_SweptAtRunEnd ==
    [][(cal_pc # "idle" /\ cal_pc' = "idle") =>
        \A k \in DOMAIN cal_file'.sent :
            cal_now' * 1000 - cal_file'.sent[k] <= T4D_MINUTES * 60 * 1000]_vars

\* C8: two sends for the same logical event (same name, same local date)
\* and the same phase were made under the same key, whichever sources were
\* reachable and whichever candidate time build_events kept.
C8_KeyDeterministic ==
    \A p, q \in CalPairs :
        (/\ cal_attempts[p] > 0 /\ cal_attempts[q] > 0
         /\ p[1] = q[1] /\ local_date(p[2]) = local_date(q[2]) /\ p[3] = q[3])
          => DedupeKey(Ev(p[1], p[2], ""), p[3]) = DedupeKey(Ev(q[1], q[2], ""), q[3])

\* st after a phase function that computed r at the instant it read
After(st, r) == IF r.fired THEN mark_sent(st, r.key, r.at) ELSE st

Fetched ==
    build_jobless_claims(cal_scrape.now) \o build_nfp(cal_scrape.now)
        \o (IF cal_scrape.bls = "fail" THEN <<>>
            ELSE pull_bls_events(cal_scrape.bls, cal_scrape.now))

\* C14: whichever scrapers raised in build_events, every event of the other
\* sources and every computed event is in the list the loop of run_once
\* evaluates in that run (under its name and local date).
C14_SourceIsolation ==
    (cal_scrape.done /\ cal_pc \in {"t4d", "t90", "crashed"}) =>
        \A i \in DOMAIN Fetched :
            \E j \in DOMAIN cal_evs :
                /\ cal_evs[j].name = Fetched[i].name
                /\ local_date(cal_evs[j].dt) = local_date(Fetched[i].dt)

\* the BLS scraper raised, and the computed NFP event fired T-4d in that run
C14_Witness ==
    /\ cal_scrape.done /\ cal_scrape.bls = "fail"
    /\ cal_eval4.valid /\ cal_eval4.fired
    /\ cal_eval4.name = "NFP" /\ cal_eval4.dt = NFP_DT

\* C11: whatever the state file holds (nothing, text json.loads rejects, an
\* object without "sent", JSON that is not an object), no run of run_once
\* ends with an exception raised at load or at a later already_sent or
\* mark_sent.
C11_LoadTotal == cal_pc # "crashed"

\* C12: after a save_state that failed, the next run starts from the state
\* the last completed save_state persisted.
C12_FailedSaveKeepsState ==
    [][(cal_pc = "idle" /\ cal_pc' = "loaded" /\ cal_file.shape \notin {"nosent", "nonobj"})
          => cal_st'.sent = cal_persisted]_vars

\* ========================================================================
\* Properties of watchtower.py
\* ========================================================================

\* C2: once a key is recorded in sent, no run sends an alert for that key
\* while its record is present in the persisted store; a second alert needs
\* a sweep to have removed the record.
C2_RecordSuppresses ==
    [][\A u \in WTUids :
          wt_alerts'[u] > wt_alerts[u] => u \notin DOMAIN wt_file.sent]_vars

\* C5: the sweep removes exactly the records with now - firedAt > retention,
\* now being the now_ms() the record is compared with: a record of age
\* retention stays, one of age retention + 1 goes, and the records that stay
\* are unchanged.
C5_SweepBoundary ==
    wt_pc = "save" =>
        /\ DOMAIN wt_sent \subseteq DOMAIN wt_gcSeen
        /\ \A k \in DOMAIN wt_gcSeen :
              LET age == wt_gcSeen[k].read - wt_gcSeen[k].ts
              IN /\ (k \in DOMAIN wt_sent) <=> (age <= h_to_ms(DEDUPE_HOURS))
                 /\ k \in DOMAIN wt_sent => wt_sent[k] = wt_gcSeen[k].ts

\* one sweep kept a record of age retention and dropped one of retention + 1
C5_Witness ==
    /\ wt_pc = "save"
    /\ \E k \in DOMAIN wt_gcSeen :
          /\ wt_gcSeen[k].read - wt_gcSeen[k].ts = h_to_ms(DEDUPE_HOURS)
          /\ k \in DOMAIN wt_sent
    /\ \E k \in DOMAIN wt_gcSeen :
          /\ wt_gcSeen[k].read - wt_gcSeen[k].ts = h_to_ms(DEDUPE_HOURS) + 1
          /\ k \notin DOMAIN wt_sent

\* C13: whenever the state file changes, it changes to the complete state of
\* the run that writes it; it never holds a partial or empty text.
C13_AtomicWriteBack ==
    [][wt_file' # wt_file =>
          /\ wt_pc = "save"
          /\ wt_file'.shape = "state"
          /\ wt_file'.sent = wt_sent]_vars

\* C7: the retention exceeds the time an item stays eligible, so no item is
\* alerted a second time (an alert is only sent for an item that is_recent
\* accepts, so every second alert happens while the item is eligible).
C7_NoSecondAlert == \A u \in WTUids : wt_alerts[u] <= 1

\* ========================================================================
\* Properties of hype_watcher.py and sentiment_summary.py
\* ========================================================================

\* C9: when the send of a firing decision fails, its key is still recorded
\* as fired in that run.
C9_FailedSendMarked ==
    (hy_pc = "send" /\ hy_last.outcome = "failed") => hy_last.uid \in hy_seen

\* the rounded share of one side among the mentions of a coin
Pct(sym, side) == round_pct(se_counts[sym][side], se_counts[sym].total)
Reported(sym) == \E l \in se_lines : l.sym = sym

\* C15: once the lines are built, a coin with MIN_MENTIONS_PER_COIN - 1
\* mentions has no line; a coin with at least MIN_MENTIONS_PER_COIN mentions
\* (so also with exactly that many) and a bullish share that rounds to
\* STRONG_THRESHOLD_PCT has its bullish line; with a bullish share that
\* rounds to STRONG_THRESHOLD_PCT - 1 and a bearish share below the
\* threshold it has no line.
C15_AggregateBoundary ==
    se_pc \in {"done", "crashed"} =>
        \A sym \in Coins :
            /\ se_counts[sym].total = MIN_MENTIONS_PER_COIN - 1 => ~Reported(sym)
            /\ se_counts[sym].total >= MIN_MENTIONS_PER_COIN =>
                  /\ Pct(sym, "bull") = STRONG_THRESHOLD_PCT =>
                        [sym |-> sym, side |-> "bull", pct |-> STRONG_THRESHOLD_PCT] \in se_lines
                  /\ (/\ Pct(sym, "bull") = STRONG_THRESHOLD_PCT - 1
                      /\ Pct(sym, "bear") < STRONG_THRESHOLD_PCT) => ~Reported(sym)

\* ETH with 3 bullish of 4 mentions is reported at 75, BTC with a bullish
\* share of 74 is not
C15_Witness ==
    /\ se_pc = "done"
    /\ se_counts["ETH"].total = MIN_MENTIONS_PER_COIN
    /\ Pct("ETH", "bull") = STRONG_THRESHOLD_PCT
    /\ Reported("ETH")
    /\ se_counts["BTC"].total >= MIN_MENTIONS_PER_COIN
    /\ Pct("BTC", "bull") = STRONG_THRESHOLD_PCT - 1
    /\ ~Reported("BTC")

\* C16: an item of the send loop (it passed the recency filter and is not in
\* seen) is handed to send_telegram iff its score is at least
\* MIN_SCORE_TO_ALERT, and an item that is handed over was never handed over
\* before.
C16_ThresholdGate ==
    [][(hy_pc = "send" /\ hy_j <= Len(hy_items) /\ (hy_j' # hy_j \/ hy_pc' # hy_pc)) =>
          LET it == hy_items[hy_j]
              notified == hy_alerts'[it.uid] > hy_alerts[it.uid]
          IN /\ notified <=> it.score >= MIN_SCORE_TO_ALERT
             /\ notified => hy_alerts[it.uid] = 0]_vars

\* C18: run never ends with an exception of score_item; the entry is left
\* out and the others are processed.
C18_ScorerIsolated == hy_pc # "score_error"

\* C19: within one run no uid is handed to send_telegram more than once.
C19_OncePerRun == \A u \in HyUids : hy_runAlerts[u] <= 1

\* C17: a script started without the bot credential or without the channel
\* identifier stops before it attempts any notification.
C17_ConfigFatal ==
    lg_conf # {"TELEGRAM_BOT_TOKEN", "TELEGRAM_CHAT_ID"} =>
        /\ ~lg_started
        /\ \A key \in LgKeys : lg_sent[key] = 0

\* C10: a failing send does not raise out of the send boundary, and the run
\* goes on to its final step.
C10_SendNeverAborts == se_pc # "crashed"

\* C28: whatever fetches and sends fail, a run of main that has loaded its
\* state reaches the write of the state file, and after it the process ends.
C28_RunToCompletion ==
    /\ (wt_pc = "feeds") ~> (wt_pc = "save")
    /\ (wt_pc = "save") ~> (wt_pc = "idle")

\* ========================================================================
\* Further properties of sentiment_summary.py
\* ========================================================================

\* C27: after any sequence of classified mentions the total of every coin
\* is the sum of its bull, bear and neutral counts, a coin has at most one
\* summary line, and the side a line names has more mentions than the
\* other side.
C27_AggregateConsistent ==
    /\ \A sym \in Coins :
          se_counts[sym].total
              = se_counts[sym].bull + se_counts[sym].bear + se_counts[sym].neutral
    /\ \A l1 \in se_lines, l2 \in se_lines : l1.sym = l2.sym => l1 = l2
    /\ \A l \in se_lines :
          se_counts[l.sym][l.side]
              > se_counts[l.sym][IF l.side = "bull" THEN "bear" ELSE "bull"]

\* both coins have a line, one of them bearish with a bullish mention
\* among its five
C27_Witness ==
    /\ se_pc = "done"
    /\ \A sym \in Coins : \E l \in se_lines : l.sym = sym
    /\ \E l \in se_lines :
          l.side = "bear" /\ se_counts[l.sym].bull = 1 /\ se_counts[l.sym].total = 5

\* ========================================================================
\* Properties of score_event of watchtower.py
\* ========================================================================

\* C26: in whatever order the checks of score_event are applied, the value
\* returned for a text and a source label is the one score_event gives for
\* them, the sum of the weights that match clamped once at the end, and it
\* lies in 0 .. 20.
C26_ScorePure ==
    sc_ret # -1
        => /\ sc_ret = score_event(sc_text, sc_label)
           /\ sc_ret \in 0 .. 20
           /\ sc_ret = (IF sc_s > 20 THEN 20 ELSE sc_s)
           /\ sc_s = SumWeights(sc_text) + (IF sc_label \in RegulatorLabels THEN 4 ELSE 0)

\* every check matched: the sum is 32 and the value returned is 20
C26_Witness ==
    /\ sc_ret = 20
    /\ sc_s = 32
    /\ sc_text = Signals
    /\ sc_label \in RegulatorLabels

\* ========================================================================
\* Properties of overlapping invocations of calendar_watcher.py
\* ========================================================================

\* the notification of some (event, phase) pair was sent more than once
RcDuplicate == \E k \in CalPairs : rc_attempts[k] >= 2

C22_LoopOncePerNotice == \A key \in LgKeys : lg_sent[key] <= 1

\* ========================================================================
\* Further properties of hype_watcher.py
\* ========================================================================

\* C23: no failure makes a run hand a message that describes the failure to
\* the notification channel; here, the send loop of hype_watcher never does.
C23_FailuresNotSurfaced == ~hy_last.notice

\* C25: a run of hype_watcher delivers at most MAX_ITEMS_PER_RUN alerts and
\* works through its items in descending order of score; when the cap ends
\* the loop, every item with a score at or above the cutoff that the loop
\* did not reach is outside seen, which is what the run then saves.
C25_RunCap ==
    /\ hy_sent <= MAX_ITEMS_PER_RUN
    /\ \A a \in DOMAIN hy_items, b \in DOMAIN hy_items :
          a < b => hy_items[a].score >= hy_items[b].score
    /\ (hy_pc \in {"hb", "save"} /\ hy_last.outcome = "capped")
          => /\ hy_sent = MAX_ITEMS_PER_RUN
             /\ \A k \in hy_j .. Len(hy_items) :
                   hy_items[k].score >= MIN_SCORE_TO_ALERT => hy_items[k].uid \notin hy_seen

\* the first run sent h1 .. h5 and left h6 to the cap; the second run, which
\* finds h1 .. h5 in seen, has just sent h6
C25_Witness ==
    /\ hy_runs = 2
    /\ \A u \in {"h1", "h2", "h3", "h4", "h5"} : hy_alerts[u] = 1 /\ hy_runAlerts[u] = 0
    /\ hy_last.uid = "h6" /\ hy_last.outcome = "sent"
    /\ hy_alerts["h6"] = 1

\* ========================================================================
\* Further properties of watchtower.py
\* ========================================================================

\* C24: inside a run of main a key is recorded in the step that hands its
\* alert to send_telegram and in no other, with the time read after the
\* send; alerts are decided only while the feeds are worked through, the
\* sweep follows the last of them and the write follows the sweep, and the
\* state file changes in no step but that final write.
C24_StepOrder ==
    [][/\ \A u \in WTUids :
             /\ (wt_pc # "idle" /\ u \in DOMAIN wt_sent'
                    /\ (u \notin DOMAIN wt_sent \/ wt_sent'[u] # wt_sent[u]))
                  => wt_pc = "items" /\ wt_alerts'[u] = wt_alerts[u] + 1
             /\ wt_alerts'[u] # wt_alerts[u]
                  => /\ wt_pc = "items"
                     /\ wt_alerts'[u] = wt_alerts[u] + 1
                     /\ u \in DOMAIN wt_sent' /\ wt_sent'[u] = wt_now'
       /\ wt_pc = "gc" => wt_pc' = "save" /\ wt_src > Len(SOURCES) /\ wt_queue = <<>>
       /\ wt_pc = "save" => wt_pc' = "idle"
       /\ wt_file' # wt_file => wt_pc = "save"]_vars

\* a run has alerted an entry, recorded it and swept, and the state file
\* does not hold the record yet
C24_Witness ==
    /\ wt_pc = "save"
    /\ wt_alerted >= 1
    /\ wt_last.outcome = "alerted"
    /\ wt_last.uid \in DOMAIN wt_sent
    /\ wt_last.uid \notin DOMAIN wt_file.sent

====
